---- MODULE Spec2Model ----
(***************************************************************************)
(* Model of intervalg.Interval (src/intervalg.py): an immutable pair       *)
(* (lower, upper) built by Interval.__new__ and transformed by endpoint-   *)
(* wise operators and set-like operations.                                 *)
(*                                                                         *)
(* Numbers.  A Python number is modelled as a record:                      *)
(*   [k |-> "fin", n |-> p, d |-> q]  the exact value p/q in lowest terms, *)
(*   inf, ninf, nan                   float('inf'), -inf, float('nan'),    *)
(*   None                             the Python object None.              *)
(* Finite arithmetic is exact (as for int and Fraction operands); what is  *)
(* kept of floating point is the IEEE behaviour of the non-finite values:  *)
(* inf - inf, inf * 0 and every operation on nan give nan, and every       *)
(* comparison with nan is false.                                           *)
(***************************************************************************)
EXTENDS Integers, Sequences, FiniteSets, TLC

VARIABLES x, last

vars == <<x, last>>

\* Largest absolute value of the finite numbers in play.
MaxMag == 2

-----------------------------------------------------------------------------
(* Python numbers *)

RECURSIVE GCD(_, _)
GCD(a, b) == IF b = 0 THEN a ELSE GCD(b, a % b)

AbsInt(n) == IF n < 0 THEN -n ELSE n

None == [k |-> "none", n |-> 0, d |-> 1]
nan  == [k |-> "nan",  n |-> 0, d |-> 1]
inf  == [k |-> "inf",  n |-> 0, d |-> 1]
ninf == [k |-> "ninf", n |-> 0, d |-> 1]

\* The finite number n/d (d > 0), in lowest terms.
Fin(n, d) ==
    LET g == GCD(AbsInt(n), d)
    IN  [k |-> "fin", n |-> n \div g, d |-> d \div g]

\* Mutant of isfinite: `not math.isinf(v)`, which lets nan through.
isfinite_not_isinf(v) == v.k \notin {"inf", "ninf"}

isfinite(v) == v.k = "fin"
isinf(v)    == v.k \in {"inf", "ninf"}

\* a < b
lt(a, b) ==
    CASE a.k = "nan" \/ b.k = "nan" -> FALSE
      [] a.k = "ninf" -> b.k # "ninf"
      [] a.k = "inf"  -> FALSE
      [] b.k = "inf"  -> TRUE
      [] b.k = "ninf" -> FALSE
      [] OTHER        -> a.n * b.d < b.n * a.d

\* a == b
eq(a, b) == a.k # "nan" /\ b.k # "nan" /\ a = b

gt(a, b) == lt(b, a)
le(a, b) == lt(a, b) \/ eq(a, b)
ge(a, b) == le(b, a)

\* -a
neg(a) ==
    CASE a.k = "nan"  -> nan
      [] a.k = "inf"  -> ninf
      [] a.k = "ninf" -> inf
      [] OTHER        -> Fin(-a.n, a.d)

\* a + b
add(a, b) ==
    CASE a.k = "nan" \/ b.k = "nan" -> nan
      [] isinf(a) /\ isinf(b) -> IF a.k = b.k THEN a ELSE nan
      [] isinf(a) -> a
      [] isinf(b) -> b
      [] OTHER    -> Fin(a.n * b.d + b.n * a.d, a.d * b.d)

\* a - b
sub(a, b) ==
    CASE a.k = "nan" \/ b.k = "nan" -> nan
      [] isinf(a) /\ isinf(b) -> IF a.k = b.k THEN nan ELSE a
      [] isinf(a) -> a
      [] isinf(b) -> neg(b)
      [] OTHER    -> Fin(a.n * b.d - b.n * a.d, a.d * b.d)

\* The sign of a number that is not nan: -1, 0 or 1.
Sgn(a) ==
    CASE a.k = "inf"  -> 1
      [] a.k = "ninf" -> -1
      [] OTHER        -> IF a.n > 0 THEN 1 ELSE IF a.n < 0 THEN -1 ELSE 0

\* a * b
mul(a, b) ==
    CASE a.k = "nan" \/ b.k = "nan" -> nan
      [] isinf(a) \/ isinf(b) ->
            IF Sgn(a) * Sgn(b) = 0 THEN nan
            ELSE IF Sgn(a) * Sgn(b) > 0 THEN inf ELSE ninf
      [] OTHER -> Fin(a.n * b.n, a.d * b.d)

\* abs(a)
abs(a) ==
    CASE a.k = "nan" -> nan
      [] isinf(a)    -> inf
      [] OTHER       -> Fin(AbsInt(a.n), a.d)

\* The outcome of a call: the value it returns, or the exception it raises.
Ok(v)    == [exc |-> "", val |-> v]
Raise(e) == [exc |-> e, val |-> <<>>]

\* math.floor(a): OverflowError on an infinity, ValueError on nan.
floor(a) ==
    CASE a.k = "nan" -> Raise("ValueError")
      [] isinf(a)    -> Raise("OverflowError")
      [] OTHER       -> Ok(Fin(a.n \div a.d, 1))

\* math.ceil(a)
ceil(a) ==
    CASE a.k = "nan" -> Raise("ValueError")
      [] isinf(a)    -> Raise("OverflowError")
      [] OTHER       -> Ok(Fin(-((-a.n) \div a.d), 1))

\* max(a, b) and min(a, b) of the builtins: the first argument is kept
\* unless the second compares strictly greater (smaller).
max(a, b) == IF gt(b, a) THEN b ELSE a
min(a, b) == IF lt(b, a) THEN b ELSE a

-----------------------------------------------------------------------------
(* Arguments of a call: each positional argument carries the type that    *)
(* the isinstance tests of __new__ look at.                                *)

Value(v)       == [type |-> "value", val |-> v]      \* None or a Number
AnInterval(i)  == [type |-> "Interval", val |-> i]   \* an Interval instance
Str(s)         == [type |-> "str", val |-> s]        \* a str
Iterable(s)    == [type |-> "iterable", val |-> s]   \* a plain tuple

\* No keyword arguments.
NoKwargs == [key \in {} |-> None]

\* kwargs.get(key, default)
get(kwargs, key, default) ==
    IF key \in DOMAIN kwargs THEN kwargs[key] ELSE default

\* self.lower, self.upper (and their aliases min, max)
lower(self) == self[1]
upper(self) == self[2]

-----------------------------------------------------------------------------
(* Strings: a str is a sequence of one-character strings.                  *)

Whitespace == {" ", "\t", "\n", "\r", "\f"}
Uppercase  == <<"A","B","C","D","E","F","G","H","I","J","K","L","M",
                "N","O","P","Q","R","S","T","U","V","W","X","Y","Z">>
Lowercase  == <<"a","b","c","d","e","f","g","h","i","j","k","l","m",
                "n","o","p","q","r","s","t","u","v","w","x","y","z">>
HexDigits  == <<"0","1","2","3","4","5","6","7","8","9",
                "a","b","c","d","e","f">>

\* The first index of character c in s, or 0.
IndexOf(s, c) ==
    IF \E i \in 1..Len(s) : s[i] = c
    THEN CHOOSE i \in 1..Len(s) : s[i] = c /\ \A j \in 1..(i - 1) : s[j] # c
    ELSE 0

\* re.sub(pattern, repl, string) for a pattern that is a character class:
\* every character of the class is replaced by the string repl.
RECURSIVE re_sub(_, _, _)
re_sub(class, repl, string) ==
    IF string = <<>> THEN <<>>
    ELSE (IF Head(string) \in class THEN repl ELSE <<Head(string)>>)
         \o re_sub(class, repl, Tail(string))

\* str.lower()
str_lower(string) ==
    [i \in 1..Len(string) |->
        IF IndexOf(Uppercase, string[i]) # 0
        THEN Lowercase[IndexOf(Uppercase, string[i])]
        ELSE string[i]]

RECURSIVE lstrip(_, _)
lstrip(string, chars) ==
    IF string # <<>> /\ Head(string) \in chars
    THEN lstrip(Tail(string), chars)
    ELSE string

RECURSIVE rstrip(_, _)
rstrip(string, chars) ==
    IF string # <<>> /\ string[Len(string)] \in chars
    THEN rstrip(SubSeq(string, 1, Len(string) - 1), chars)
    ELSE string

\* str.strip(chars)
strip(string, chars) == rstrip(lstrip(string, chars), chars)

\* str.split(sep) for a one-character separator
RECURSIVE split(_, _)
split(string, sep) ==
    LET i == IndexOf(string, sep)
    IN  IF i = 0 THEN <<string>>
        ELSE <<SubSeq(string, 1, i - 1)>>
             \o split(SubSeq(string, i + 1, Len(string)), sep)

\* The value of a digit character, or 16 for any other character.
DigitVal(c) == IF IndexOf(HexDigits, c) # 0 THEN IndexOf(HexDigits, c) - 1 ELSE 16

\* A digit part of a numeric literal: digits of the base, with single
\* underscores allowed between digits.
IsDigitPart(s, base) ==
    /\ s # <<>>
    /\ s[1] # "_"
    /\ s[Len(s)] # "_"
    /\ \A i \in 1..Len(s) :
          \/ DigitVal(s[i]) < base
          \/ s[i] = "_" /\ i < Len(s) /\ s[i + 1] # "_"

RECURSIVE DigitsValue(_, _, _)
DigitsValue(s, base, acc) ==
    IF s = <<>> THEN acc
    ELSE IF Head(s) = "_" THEN DigitsValue(Tail(s), base, acc)
    ELSE DigitsValue(Tail(s), base, acc * base + DigitVal(Head(s)))

\* The number of digits of a digit part.
NDigits(s) == Len(SelectSeq(s, LAMBDA c : c # "_"))

RECURSIVE Pow10(_)
Pow10(e) == IF e = 0 THEN 1 ELSE 10 * Pow10(e - 1)

HasSign(s)   == s # <<>> /\ s[1] \in {"+", "-"}
Unsigned(s)  == IF HasSign(s) THEN Tail(s) ELSE s
SignOf(s)    == IF HasSign(s) /\ s[1] = "-" THEN -1 ELSE 1

\* The digits of an integer literal of the given base, after its sign and
\* prefix: a decimal literal has no leading zero unless it is all zeros.
int_digits(sgn, digits, base, prefix) ==
    IF /\ IsDigitPart(digits, base)
       /\ prefix \/ digits[1] # "0"
                 \/ \A i \in 1..Len(digits) : digits[i] \in {"0", "_"}
    THEN Ok(Fin(sgn * DigitsValue(digits, base, 0), 1))
    ELSE Raise("ValueError")

\* An integer literal after its sign: the base is read off its prefix.
int_unsigned(sgn, body) ==
    IF Len(body) >= 2 /\ body[1] = "0" /\ body[2] \in {"x", "o", "b"}
    THEN int_digits(sgn,
                    IF Len(body) >= 3 /\ body[3] = "_"
                    THEN SubSeq(body, 4, Len(body))
                    ELSE SubSeq(body, 3, Len(body)),
                    IF body[2] = "x" THEN 16 ELSE IF body[2] = "o" THEN 8 ELSE 2,
                    TRUE)
    ELSE int_digits(sgn, body, 10, FALSE)

\* int(string, base=0): a decimal literal without leading zeros, or a
\* literal with a 0x, 0o or 0b prefix; ValueError otherwise.
int_base0(string) == int_unsigned(SignOf(string), Unsigned(string))

\* The value sgn * ipart.fpart * 10^e of a decimal literal.
float_value(sgn, ipart, fpart, e) ==
    IF e >= 0
    THEN Fin(sgn * (DigitsValue(ipart, 10, 0) * Pow10(NDigits(fpart))
                    + DigitsValue(fpart, 10, 0)) * Pow10(e),
             Pow10(NDigits(fpart)))
    ELSE Fin(sgn * (DigitsValue(ipart, 10, 0) * Pow10(NDigits(fpart))
                    + DigitsValue(fpart, 10, 0)),
             Pow10(NDigits(fpart)) * Pow10(-e))

\* A decimal literal given by its integer part, fraction (dot tells whether
\* there is a point) and exponent (hasExp tells whether there is one).
float_decimal(sgn, ipart, fpart, dot, expo, hasExp) ==
    IF /\ IF dot
          THEN /\ ipart = <<>> \/ IsDigitPart(ipart, 10)
               /\ fpart = <<>> \/ IsDigitPart(fpart, 10)
               /\ ipart # <<>> \/ fpart # <<>>
          ELSE IsDigitPart(ipart, 10)
       /\ hasExp => IsDigitPart(Unsigned(expo), 10)
    THEN Ok(float_value(sgn, ipart, fpart,
                        IF hasExp
                        THEN SignOf(expo) * DigitsValue(Unsigned(expo), 10, 0)
                        ELSE 0))
    ELSE Raise("ValueError")

\* A decimal literal given by its mantissa and exponent.
float_mantissa(sgn, mant, expo, hasExp) ==
    IF IndexOf(mant, ".") = 0
    THEN float_decimal(sgn, mant, <<>>, FALSE, expo, hasExp)
    ELSE float_decimal(sgn, SubSeq(mant, 1, IndexOf(mant, ".") - 1),
                       SubSeq(mant, IndexOf(mant, ".") + 1, Len(mant)),
                       TRUE, expo, hasExp)

\* A float literal after its sign.
float_unsigned(sgn, body) ==
    CASE body \in {<<"i","n","f">>, <<"i","n","f","i","n","i","t","y">>} ->
            Ok(IF sgn = 1 THEN inf ELSE ninf)
      [] body = <<"n","a","n">> -> Ok(nan)
      [] IndexOf(body, "e") = 0 -> float_mantissa(sgn, body, <<>>, FALSE)
      [] OTHER ->
            float_mantissa(sgn, SubSeq(body, 1, IndexOf(body, "e") - 1),
                           SubSeq(body, IndexOf(body, "e") + 1, Len(body)), TRUE)

\* float(string): inf, infinity, nan, or a decimal literal with an optional
\* fraction and exponent, each with an optional sign; ValueError otherwise.
\* The string is in lower case already.
float(string) == float_unsigned(SignOf(string), Unsigned(string))

-----------------------------------------------------------------------------
(* Interval: construction *)

\* Mutant of parse_float: the float is returned without the isfinite test.
parse_float_unchecked(value) == value

\* The except branch of _parse_string_limit: the float when it is finite,
\* None for nan, inf, +inf, -inf; the ValueError of float propagates.
parse_float(value) ==
    IF value.exc # "" THEN value
    ELSE IF isfinite(value.val) THEN value
    ELSE Ok(None)

\* The try of _parse_string_limit: the int when int() accepts the string.
parse_int(string, value) ==
    IF value.exc = "" THEN value ELSE parse_float(float(string))

\* _parse_string_limit after the strip.
parse_stripped(string) ==
    IF string \in {<<>>, <<"n","o","n","e">>, <<"n","u","l","l">>}
    THEN Ok(None)
    ELSE parse_int(string, int_base0(string))

\* Interval._parse_string_limit: one limit from its text, None when it is
\* undefined; ValueError (from float) when the text is no number.
_parse_string_limit(string) == parse_stripped(strip(string, Whitespace))

\* The return of _from_string for two fields: the first exception raised,
\* or the pair.
from_limits(lower_, upper_) ==
    IF lower_.exc # "" THEN lower_
    ELSE IF upper_.exc # "" THEN upper_
    ELSE Ok(<<lower_.val, upper_.val>>)

\* _from_string once the string is split into fields.
from_fields(fields) ==
    IF Len(fields) = 1 THEN Ok(<<None, None>>)
    ELSE IF Len(fields) = 2
    THEN from_limits(_parse_string_limit(fields[1]),
                     _parse_string_limit(fields[2]))
    ELSE Raise("ValueError")

\* Interval._from_string: the pair of limits (each possibly None) parsed
\* from a string, or the ValueError it raises.
_from_string(string) ==
    from_fields(
        split(re_sub({";", ":", "|"}, <<",">>,
                     strip(str_lower(re_sub(Whitespace, <<>>, string)),
                           {"[", "]", "(", ")"})),
              ","))

\* The pair (lower, upper) that the positional arguments of __new__ resolve
\* to, or the ValueError raised when unpacking or parsing fails.
positional(args) ==
    IF Len(args) = 0 THEN Ok(<<None, None>>)
    ELSE IF Len(args) = 1
    THEN CASE args[1].type = "str" -> _from_string(args[1].val)
           [] args[1].type = "value" ->
                IF args[1].val = None THEN Ok(<<None, None>>)
                ELSE IF ~isfinite(args[1].val) THEN Ok(<<None, None>>)
                ELSE Ok(<<args[1].val, args[1].val>>)
           [] OTHER ->
                IF Len(args[1].val) = 2 THEN Ok(args[1].val)
                ELSE Raise("ValueError")
    ELSE IF Len(args) = 2 THEN Ok(<<args[1].val, args[2].val>>)
    ELSE Raise("ValueError")

\* Mutant of ordered: the bounds are not swapped.
ordered_unswapped(lower_, upper_) ==
    << IF lower_ = None THEN ninf ELSE lower_,
       IF upper_ = None THEN inf ELSE upper_ >>

\* The end of __new__: the bounds are swapped if out of order, then an
\* undefined bound becomes the infinity of its side.
ordered(lower_, upper_) ==
    IF lower_ # None /\ upper_ # None /\ gt(lower_, upper_)
    THEN <<upper_, lower_>>
    ELSE << IF lower_ = None THEN ninf ELSE lower_,
            IF upper_ = None THEN inf ELSE upper_ >>

\* __new__ after the positional arguments: the keyword arguments overwrite
\* what the positional ones gave.
keywords(kwargs, pos) ==
    IF pos.exc # "" THEN pos
    ELSE Ok(ordered(get(kwargs, "lower", get(kwargs, "min", pos.val[1])),
                    get(kwargs, "upper", get(kwargs, "max", pos.val[2]))))

\* Interval.__new__(cls, *args, **kwargs): the Interval built, or the
\* ValueError raised.  args is the sequence of positional arguments, kwargs
\* the mapping of keyword arguments.  An Interval argument is returned as
\* it is.
__new__(args, kwargs) ==
    IF Len(args) = 1 /\ args[1].type = "Interval" THEN Ok(args[1].val)
    ELSE keywords(kwargs, positional(args))

\* Interval(lower, upper) with two positional numbers, as the operators
\* call it; this call never raises.
Interval(a, b) == __new__(<<Value(a), Value(b)>>, NoKwargs).val

\* Interval(other): the coercion of an operand.
Coerce(other) == __new__(<<other>>, NoKwargs)

-----------------------------------------------------------------------------
(* Interval: properties, operators and set-like operations.  Each binary   *)
(* method coerces its operand with Interval(other) first; the definition   *)
(* that follows the coercion takes its outcome o.                          *)

Zero == Fin(0, 1)

is_single_number(self) == eq(lower(self), upper(self))

add_coerced(self, o) ==
    IF o.exc # "" THEN o
    ELSE Ok(Interval(add(lower(self), lower(o.val)),
                     add(upper(self), upper(o.val))))

__add__(self, other) == add_coerced(self, Coerce(other))

__radd__(self, other) == __add__(self, other)

\* Mutant of sub_coerced: the operands are taken in the reflected order.
sub_reflected(self, o) ==
    IF o.exc # "" THEN o
    ELSE Ok(Interval(sub(lower(o.val), lower(self)),
                     sub(upper(o.val), upper(self))))

sub_coerced(self, o) ==
    IF o.exc # "" THEN o
    ELSE Ok(Interval(sub(lower(self), lower(o.val)),
                     sub(upper(self), upper(o.val))))

__sub__(self, other) == sub_coerced(self, Coerce(other))

rsub_coerced(self, o) ==
    IF o.exc # "" THEN o
    ELSE Ok(Interval(sub(lower(o.val), lower(self)),
                     sub(upper(o.val), upper(self))))

__rsub__(self, other) == rsub_coerced(self, Coerce(other))

mul_coerced(self, o) ==
    IF o.exc # "" THEN o
    ELSE Ok(Interval(mul(lower(self), lower(o.val)),
                     mul(upper(self), upper(o.val))))

__mul__(self, other) == mul_coerced(self, Coerce(other))

__neg__(self) == Ok(Interval(neg(lower(self)), neg(upper(self))))

__abs__(self) == Ok(Interval(abs(lower(self)), abs(upper(self))))

\* Interval(lower, upper) of two rounded bounds; the exception of a
\* rounding (of an infinity or nan) propagates.
rounded(lower_, upper_) ==
    IF lower_.exc # "" THEN lower_
    ELSE IF upper_.exc # "" THEN upper_
    ELSE Ok(Interval(lower_.val, upper_.val))

round_wider(self) ==
    rounded(IF ge(lower(self), Zero) THEN floor(lower(self))
                                     ELSE ceil(lower(self)),
            IF ge(upper(self), Zero) THEN ceil(upper(self))
                                     ELSE floor(upper(self)))

round_narrower(self) ==
    rounded(IF ge(lower(self), Zero) THEN ceil(lower(self))
                                     ELSE floor(lower(self)),
            IF ge(upper(self), Zero) THEN floor(upper(self))
                                     ELSE ceil(upper(self)))

\* 1 if v > 0 else -1 if v < 0 else 0
sign_of(v) ==
    IF gt(v, Zero) THEN Fin(1, 1) ELSE IF lt(v, Zero) THEN Fin(-1, 1) ELSE Zero

sign(self) == Ok(Interval(sign_of(lower(self)), sign_of(upper(self))))

eq_coerced(self, o) == eq(lower(self), lower(o)) /\ eq(upper(self), upper(o))

\* self == other
__eq__(self, other) == eq_coerced(self, Coerce(other).val)

is_disjoint(self, other) == lt(upper(self), lower(Coerce(other).val))

superset_coerced(self, o) ==
    le(lower(self), lower(o)) /\ le(upper(o), upper(self))

is_superset(self, other) == superset_coerced(self, Coerce(other).val)

subset_coerced(self, o) ==
    le(lower(o), lower(self)) /\ le(upper(self), upper(o))

is_subset(self, other) == subset_coerced(self, Coerce(other).val)

\* Mutant of intersection_coerced: the pair is returned as a plain tuple,
\* without going through the constructor.
intersection_raw(self, o, err_on_disjoint) ==
    IF o.exc # "" THEN o
    ELSE IF is_disjoint(self, AnInterval(o.val)) /\ err_on_disjoint
    THEN Raise("ValueError")
    ELSE Ok(<<max(lower(self), lower(o.val)), min(upper(self), upper(o.val))>>)

intersection_coerced(self, o, err_on_disjoint) ==
    IF o.exc # "" THEN o
    ELSE IF is_disjoint(self, AnInterval(o.val)) /\ err_on_disjoint
    THEN Raise("ValueError")
    ELSE Ok(Interval(max(lower(self), lower(o.val)),
                     min(upper(self), upper(o.val))))

intersection(self, other, err_on_disjoint) ==
    intersection_coerced(self, Coerce(other), err_on_disjoint)

\* Mutant of union_coerced: err_on_disjoint is ignored.
union_unguarded(self, o, err_on_disjoint) ==
    IF o.exc # "" THEN o
    ELSE Ok(Interval(min(lower(self), lower(o.val)),
                     max(upper(self), upper(o.val))))

union_coerced(self, o, err_on_disjoint) ==
    IF o.exc # "" THEN o
    ELSE IF is_disjoint(self, AnInterval(o.val)) /\ err_on_disjoint
    THEN Raise("ValueError")
    ELSE Ok(Interval(min(lower(self), lower(o.val)),
                     max(upper(self), upper(o.val))))

union(self, other, err_on_disjoint) ==
    union_coerced(self, Coerce(other), err_on_disjoint)

-----------------------------------------------------------------------------
(* The state machine: a client holding an Interval x.  Each step is one    *)
(* call on the class, with arguments drawn from the values below; last is  *)
(* the record of the call, which the client examines and then drops before *)
(* its next call.                                                          *)

\* The numbers a client passes in: the integers and half-integers up to
\* MaxMag, the infinities and nan.
Numbers == {Fin(n, 2) : n \in (-2 * MaxMag)..(2 * MaxMag)} \cup {inf, ninf, nan}

\* The values a client passes in: a number or None.
Values == Numbers \cup {None}

\* The bounds of a result are numbers of the model.
InRange(out) ==
    out.exc = "" => \A i \in 1..2 : out.val[i] \in Numbers

NoArg == Value(None)

\* The record of a call: the method, the instance it was called on, its
\* arguments, and its outcome.
Call(op, self, other, args, kwargs, err_on_disjoint, out) ==
    [op |-> op, self |-> self, other |-> other, args |-> args,
     kwargs |-> kwargs, err_on_disjoint |-> err_on_disjoint,
     exc |-> out.exc, res |-> out.val]

NoCall == Call("", <<>>, NoArg, <<>>, NoKwargs, FALSE, Ok(<<>>))

Init ==
    /\ x = __new__(<<>>, NoKwargs).val
    /\ last = NoCall

\* The client has examined its last call and is ready for the next one.
Idle == last = NoCall

\* The client makes a call and assigns what it returns to x; a call that
\* raises assigns nothing.
Return(op, self, other, args, kwargs, err_on_disjoint, out) ==
    /\ x' = IF out.exc = "" THEN out.val ELSE x
    /\ last' = Call(op, self, other, args, kwargs, err_on_disjoint, out)

\* x = Interval(*args, **kwargs)
Construct(args, kwargs) ==
    Return("Interval", <<>>, NoArg, args, kwargs, FALSE, __new__(args, kwargs))

\* Interval()
NewDefault == Idle /\ Construct(<<>>, NoKwargs)

\* Interval(v)
NewSingle == Idle /\ \E v \in Values : Construct(<<Value(v)>>, NoKwargs)

\* Interval(a, b)
NewPair == Idle /\ \E a, b \in Values : Construct(<<Value(a), Value(b)>>, NoKwargs)

\* Interval((a, b)), and Interval((a,)) which fails to unpack
NewIterable ==
    /\ Idle
    /\ \/ \E a, b \in Values : Construct(<<Iterable(<<a, b>>)>>, NoKwargs)
       \/ \E a \in Values : Construct(<<Iterable(<<a>>)>>, NoKwargs)

\* Interval(x): the instance itself is returned
NewFromInterval == Idle /\ Construct(<<AnInterval(x)>>, NoKwargs)

\* Interval(lower=a, upper=b), with min and max as alternative names and
\* either keyword possibly absent
NewKeywords ==
    /\ Idle
    /\ \/ \E lk \in {"lower", "min"}, uk \in {"upper", "max"}, a, b \in Values :
             Construct(<<>>, [key \in {lk, uk} |-> IF key = lk THEN a ELSE b])
       \/ \E lk \in {"lower", "min"}, a \in Values :
             Construct(<<>>, [key \in {lk} |-> a])
       \/ \E uk \in {"upper", "max"}, b \in Values :
             Construct(<<>>, [key \in {uk} |-> b])

\* x = x.op(other, ...); the step is taken only when the bounds of the
\* result are numbers of the model, which keeps the values bounded.
Apply(op, other, err_on_disjoint, out) ==
    InRange(out) /\ Return(op, x, other, <<>>, NoKwargs, err_on_disjoint, out)

\* The operands a client passes to a binary operation: an Interval, or a
\* bare pair of values.
Intervals == {Interval(a, b) : a, b \in Values}
Operands  == {AnInterval(i) : i \in Intervals}
                \cup {Iterable(<<a, b>>) : a, b \in Values}
Pairs     == {Iterable(<<a, b>>) : a, b \in Values}

\* x + other
Add == Idle /\ \E o \in Operands : Apply("__add__", o, FALSE, __add__(x, o))

\* pair + x, which Python dispatches to x.__radd__(pair), Interval being a
\* subclass of tuple
RAdd == Idle /\ \E o \in Pairs : Apply("__radd__", o, FALSE, __radd__(x, o))

\* x - other
Sub == Idle /\ \E o \in Operands : Apply("__sub__", o, FALSE, __sub__(x, o))

\* pair - x
RSub == Idle /\ \E o \in Pairs : Apply("__rsub__", o, FALSE, __rsub__(x, o))

\* x * other
Mul == Idle /\ \E o \in Operands : Apply("__mul__", o, FALSE, __mul__(x, o))

Neg  == Idle /\ Apply("__neg__", NoArg, FALSE, __neg__(x))
Abs  == Idle /\ Apply("__abs__", NoArg, FALSE, __abs__(x))
Sign == Idle /\ Apply("sign", NoArg, FALSE, sign(x))

RoundWider    == Idle /\ Apply("round_wider", NoArg, FALSE, round_wider(x))
RoundNarrower == Idle /\ Apply("round_narrower", NoArg, FALSE, round_narrower(x))

Intersection ==
    Idle /\ \E i \in Intervals, e \in BOOLEAN :
        Apply("intersection", AnInterval(i), e, intersection(x, AnInterval(i), e))

Union ==
    Idle /\ \E i \in Intervals, e \in BOOLEAN :
        Apply("union", AnInterval(i), e, union(x, AnInterval(i), e))

\* The client drops the record of the finished call and goes on.
Continue ==
    /\ last # NoCall
    /\ last' = NoCall
    /\ x' = x

Next ==
    \/ NewDefault
    \/ NewSingle
    \/ NewPair
    \/ NewIterable
    \/ NewFromInterval
    \/ NewKeywords
    \/ Add
    \/ RAdd
    \/ Sub
    \/ RSub
    \/ Mul
    \/ Neg
    \/ Abs
    \/ Sign
    \/ RoundWider
    \/ RoundNarrower
    \/ Intersection
    \/ Union
    \/ Continue

Spec == Init /\ [][Next]_vars

-----------------------------------------------------------------------------
(* Construction from a string: left bracket, token, separator, token,      *)
(* right bracket.                                                          *)

LeftBrackets  == {"(", "[", "]"}
RightBrackets == {")", "]", "["}
Separators    == {",", ":", ";", "|"}

\* The tokens of an undefined limit.
UndefinedTokens ==
    { <<>>,
      <<"N","o","n","e">>,
      <<"n","u","l","l">>,
      <<"n","a","n">>,
      <<"i","n","f">>,
      <<"-","i","n","f">>,
      <<"I","n","f","i","n","i","t","y">>,
      <<"-","I","n","f","i","n","i","t","y">> }

\* Literals of finite numbers, each with the number it denotes.
Literal(text, value) == [text |-> text, value |-> value]

FiniteLiterals ==
    { Literal(<<"3">>, Fin(3, 1)),
      Literal(<<"-","2">>, Fin(-2, 1)),
      Literal(<<"4","2">>, Fin(42, 1)),
      Literal(<<"0","x","1","0">>, Fin(16, 1)),
      Literal(<<"0","B","1","1">>, Fin(3, 1)),
      Literal(<<"1",".","5">>, Fin(3, 2)),
      Literal(<<"-",".","5">>, Fin(-1, 2)),
      Literal(<<"2","E","1">>, Fin(20, 1)),
      Literal(<<"0","0","7">>, Fin(7, 1)),
      Literal(<<" ","1","_","0"," ">>, Fin(10, 1)) }

\* Tokens that are no limit: not a number, and a token with a separator
\* of its own, which makes a third field.
OtherTokens == { <<"x">>, <<"1",";","2">> }

Tokens == UndefinedTokens \cup {l.text : l \in FiniteLiterals} \cup OtherTokens

\* x = Interval(string)
NewString ==
    Idle /\ \E l \in LeftBrackets, lo \in Tokens, sep \in Separators,
               up \in Tokens, r \in RightBrackets :
                Construct(<<Str(<<l>> \o lo \o <<sep>> \o up \o <<r>>)>>, NoKwargs)

\* The strings are tried from the initial state: __new__ reads nothing of
\* the client's state.
SpecStr == Init /\ [][NewString]_vars


-----------------------------------------------------------------------------
(* Properties *)

\* The instance and the coerced operand of the last call.
A == last.self
B == Coerce(last.other).val

Returned(op) == last.op = op /\ last.exc = ""

\* A number that is finite or an infinity: not nan, not None.
Numeric(v) == v.k \in {"fin", "inf", "ninf"}

FiniteBounds(i) == isfinite(lower(i)) /\ isfinite(upper(i))

\* The smaller and the larger of two numeric values.
Smaller(a, b) == IF lt(b, a) THEN b ELSE a
Larger(a, b)  == IF lt(a, b) THEN b ELSE a

\* The last call was Interval(a, b) with two positional values.
TwoValues == last.op = "Interval" /\ Len(last.args) = 2

\* The last call was Interval(v) with one value, a number or None.
OneValue ==
    /\ last.op = "Interval"
    /\ Len(last.args) = 1
    /\ last.args[1].type = "value"

\* C1: every Interval the client can hold has lower <= upper, so neither
\* bound is nan.
C1_LowerLeUpper == le(lower(x), upper(x))

\* C2: Interval(a, b) of two numeric values never raises, equals
\* Interval(b, a), and has lower = min(a, b) and upper = max(a, b).
C2_FallingOrderSwapped ==
    (TwoValues /\ Numeric(last.args[1].val) /\ Numeric(last.args[2].val)) =>
        /\ last.exc = ""
        /\ __eq__(last.res,
                  AnInterval(Interval(last.args[2].val, last.args[1].val)))
        /\ lower(last.res) = Smaller(last.args[1].val, last.args[2].val)
        /\ upper(last.res) = Larger(last.args[1].val, last.args[2].val)

\* A construction with the two values in falling order, which were swapped.
C2_Witness ==
    /\ TwoValues
    /\ Numeric(last.args[1].val) /\ Numeric(last.args[2].val)
    /\ gt(last.args[1].val, last.args[2].val)
    /\ last.res = <<last.args[2].val, last.args[1].val>>

\* C3: Interval(v) of a finite v is the single number v and equals v;
\* Interval(v) of None, nan or an infinity is [-inf, +inf], as Interval().
C3_SingleValue ==
    OneValue =>
        /\ last.exc = ""
        /\ isfinite(last.args[1].val) =>
              /\ eq(lower(last.res), last.args[1].val)
              /\ eq(upper(last.res), last.args[1].val)
              /\ is_single_number(last.res)
              /\ __eq__(last.res, last.args[1])
        /\ last.args[1].val \in {None, nan, inf, ninf} =>
              /\ last.res = <<ninf, inf>>
              /\ last.res = __new__(<<>>, NoKwargs).val

\* Interval(nan), which gave the unbounded interval.
C3_Witness ==
    /\ OneValue
    /\ last.args[1].val = nan
    /\ last.res = <<ninf, inf>>

\* The string of the last call, which has one bracket at each end, and its
\* two tokens when the separator is at position p.
FromString ==
    /\ last.op = "Interval"
    /\ Len(last.args) = 1
    /\ last.args[1].type = "str"
TheString  == last.args[1].val
SepAt(p)   == TheString[p] \in Separators
LoToken(p) == SubSeq(TheString, 2, p - 1)
UpToken(p) == SubSeq(TheString, p + 1, Len(TheString) - 1)

\* C4: a string of two undefined tokens gives [-inf, +inf], and a string of
\* two finite literals a <= b gives [a, b], whatever the brackets and the
\* separator.
C4_StringConstruction ==
    FromString =>
        \A p \in 2..(Len(TheString) - 1) :
            /\ (/\ SepAt(p)
                /\ LoToken(p) \in UndefinedTokens
                /\ UpToken(p) \in UndefinedTokens)
               => (last.exc = "" /\ last.res = <<ninf, inf>>)
            /\ \A a, b \in FiniteLiterals :
                  (/\ SepAt(p)
                   /\ LoToken(p) = a.text
                   /\ UpToken(p) = b.text
                   /\ le(a.value, b.value))
                  => (last.exc = "" /\ last.res = <<a.value, b.value>>)

\* The string "]-.5|0x10)", which gave [-1/2, 16].
C4_Witness ==
    /\ FromString
    /\ TheString = <<"]", "-", ".", "5", "|", "0", "x", "1", "0", ")">>
    /\ last.res = <<Fin(-1, 2), Fin(16, 1)>>

\* C5: A + B == B + A, whether the operand came as an Interval or as a
\* bare pair, to __add__ or to __radd__.
C5_AddCommutes ==
    (Returned("__add__") \/ Returned("__radd__")) =>
        __eq__(last.res, AnInterval(__add__(B, AnInterval(A)).val))

\* C6 as claimed: the result of +, -, *, negate and abs on finite bounds is
\* the raw pair of the endpoint-wise results.
C6_RawEndpointWise ==
    /\ (Returned("__add__") /\ FiniteBounds(A) /\ FiniteBounds(B)) =>
          last.res = <<add(lower(A), lower(B)), add(upper(A), upper(B))>>
    /\ (Returned("__sub__") /\ FiniteBounds(A) /\ FiniteBounds(B)) =>
          last.res = <<sub(lower(A), lower(B)), sub(upper(A), upper(B))>>
    /\ (Returned("__mul__") /\ FiniteBounds(A) /\ FiniteBounds(B)) =>
          last.res = <<mul(lower(A), lower(B)), mul(upper(A), upper(B))>>
    /\ (Returned("__neg__") /\ FiniteBounds(A)) =>
          last.res = <<neg(lower(A)), neg(upper(A))>>
    /\ (Returned("__abs__") /\ FiniteBounds(A)) =>
          last.res = <<abs(lower(A)), abs(upper(A))>>

\* The pair (l, u) in rising order.
Sorted(l, u) == IF lt(u, l) THEN <<u, l>> ELSE <<l, u>>

\* C6 as amended: the result of +, -, *, negate and abs on finite bounds is
\* the pair of the endpoint-wise results in rising order; for + that is the
\* raw pair, and negating [a, b] gives [-b, -a].
C6_EndpointWiseSorted ==
    /\ (Returned("__add__") /\ FiniteBounds(A) /\ FiniteBounds(B)) =>
          /\ last.res = Sorted(add(lower(A), lower(B)), add(upper(A), upper(B)))
          /\ last.res = <<add(lower(A), lower(B)), add(upper(A), upper(B))>>
    /\ (Returned("__sub__") /\ FiniteBounds(A) /\ FiniteBounds(B)) =>
          last.res = Sorted(sub(lower(A), lower(B)), sub(upper(A), upper(B)))
    /\ (Returned("__mul__") /\ FiniteBounds(A) /\ FiniteBounds(B)) =>
          last.res = Sorted(mul(lower(A), lower(B)), mul(upper(A), upper(B)))
    /\ (Returned("__neg__") /\ FiniteBounds(A)) =>
          /\ last.res = Sorted(neg(lower(A)), neg(upper(A)))
          /\ last.res = <<neg(upper(A)), neg(lower(A))>>
    /\ (Returned("__abs__") /\ FiniteBounds(A)) =>
          last.res = Sorted(abs(lower(A)), abs(upper(A)))

\* A subtraction of finite intervals whose raw pair was in falling order
\* and came out swapped.
C6_Witness ==
    /\ Returned("__sub__")
    /\ FiniteBounds(A) /\ FiniteBounds(B)
    /\ lt(sub(upper(A), upper(B)), sub(lower(A), lower(B)))
    /\ last.res = <<sub(upper(A), upper(B)), sub(lower(A), lower(B))>>

\* C7 as claimed: intersection without err_on_disjoint returns lower =
\* max of the lowers and upper = min of the uppers, inverted when the
\* intervals have no point in common.
C7_IntersectionRaw ==
    (Returned("intersection") /\ ~last.err_on_disjoint) =>
        /\ lower(last.res) = max(lower(A), lower(B))
        /\ upper(last.res) = min(upper(A), upper(B))

\* C7 as amended: intersection without err_on_disjoint never raises and
\* returns the pair (max of the lowers, min of the uppers) when the first is
\* not greater than the second, and the swapped pair (min of the uppers,
\* max of the lowers) when it is; the result is never inverted.
C7_IntersectionOrdered ==
    (last.op = "intersection" /\ ~last.err_on_disjoint) =>
        /\ last.exc = ""
        /\ ~gt(max(lower(A), lower(B)), min(upper(A), upper(B))) =>
              last.res = <<max(lower(A), lower(B)), min(upper(A), upper(B))>>
        /\ gt(max(lower(A), lower(B)), min(upper(A), upper(B))) =>
              last.res = <<min(upper(A), upper(B)), max(lower(A), lower(B))>>
        /\ ~lt(upper(last.res), lower(last.res))

\* An intersection of two finite intervals with no point in common, which
\* returned the gap between them.
C7_Witness ==
    /\ Returned("intersection")
    /\ ~last.err_on_disjoint
    /\ FiniteBounds(A) /\ FiniteBounds(B)
    /\ lt(upper(A), lower(B))
    /\ last.res = <<upper(A), lower(B)>>

\* C8: when A.is_disjoint(B), intersection and union with err_on_disjoint
\* raise and return no interval; without err_on_disjoint neither raises.
C8_DisjointRaises ==
    (last.op \in {"intersection", "union"}) =>
        /\ (last.err_on_disjoint /\ is_disjoint(A, last.other)) =>
              (last.exc = "ValueError" /\ last.res = <<>>)
        /\ ~last.err_on_disjoint => last.exc = ""

\* A union of disjoint intervals with err_on_disjoint, which raised.
C8_Witness ==
    /\ last.op = "union"
    /\ last.err_on_disjoint
    /\ is_disjoint(A, last.other)
    /\ last.exc = "ValueError"

IsInteger(v) == isfinite(v) /\ v.d = 1

\* C9: on finite bounds round_wider returns integer bounds that enclose
\* the interval, and round_narrower integer bounds that it encloses.
C9_DirectionalRounding ==
    /\ (last.op = "round_wider" /\ FiniteBounds(A)) =>
          /\ last.exc = ""
          /\ IsInteger(lower(last.res)) /\ IsInteger(upper(last.res))
          /\ le(lower(last.res), lower(A)) /\ le(upper(A), upper(last.res))
          /\ is_superset(last.res, AnInterval(A))
    /\ (last.op = "round_narrower" /\ FiniteBounds(A)) =>
          /\ last.exc = ""
          /\ IsInteger(lower(last.res)) /\ IsInteger(upper(last.res))
          /\ le(lower(A), lower(last.res)) /\ le(upper(last.res), upper(A))
          /\ is_subset(last.res, AnInterval(A))

\* C10: intersection with err_on_disjoint raises when A lies entirely
\* below B and when B lies entirely below A, so what it returns is a subset
\* of both.
C10_GuardedIntersection ==
    (/\ last.op = "intersection"
     /\ last.err_on_disjoint
     /\ FiniteBounds(A) /\ FiniteBounds(B)) =>
        /\ (lt(upper(A), lower(B)) \/ lt(upper(B), lower(A))) =>
              last.exc = "ValueError"
        /\ last.exc = "" =>
              /\ is_subset(last.res, AnInterval(A))
              /\ is_subset(last.res, AnInterval(B))

====
